---- MODULE Spec2Model ----
(***************************************************************************)
(* Model of models/resnet18.py: the ResNet-18 feature extractor of a       *)
(* few-shot pipeline.  The state is the constructed model object, with the *)
(* buffers of its BatchNorm layers, and the outcome of the last call made  *)
(* on it.                                                                  *)
(*                                                                         *)
(* Tensors are records [shape, rows].  shape is the torch shape; rows is   *)
(* the sequence of the tensor's vectors along the last dimension.  A       *)
(* vector is [head, den]: its value is head/den, where head holds the      *)
(* leading Window coordinates and all further coordinates are zero;        *)
(* den = 0 stands for NaN (0/0).  Numbers are fixed point: an integer k    *)
(* in a tensor is the value k/Scale.  A normalised vector also carries its *)
(* divisor: eps if clamped is set, else sqrt(n2) / den.                    *)
(*                                                                         *)
(* The convolutional stack is cut down to one bias-free 1x1 convolution,   *)
(* one BatchNorm layer, ReLU and average pooling over an image of two      *)
(* pixels, each computed as the layer computes it.                         *)
(***************************************************************************)
EXTENDS Integers, Sequences, FiniteSets, TLC

VARIABLES model, last

vars == <<model, last>>

\* ---------------------------------------------------------------- bounds
MaxSupport == 2
MaxQuery == 2
MaxClasses == 2
Window == 2
\* training-mode batches one model object is taken through
MaxTracked == 2

\* ------------------------------------------------------ program constants
outplanes == 512
\* tensors hold multiples of 1/Scale
Scale == 1000
\* eps = 1e-5 of nn.BatchNorm2d, in units of 1/Scale^2
bn_eps == 10
\* momentum = 0.1 of nn.BatchNorm2d, as 1/momentum_inv
momentum_inv == 10
\* eps = 1e-12 of F.normalize, as 1/eps_inv in units of 1/Scale
eps_inv == 1000000000

\* ---------------------------------------------------------------- helpers
Max(a, b) == IF a >= b THEN a ELSE b

RECURSIVE SumSeq(_)
SumSeq(s) == IF s = <<>> THEN 0 ELSE Head(s) + SumSeq(Tail(s))

RECURSIVE Concat(_)
Concat(ss) == IF ss = <<>> THEN <<>> ELSE Head(ss) \o Concat(Tail(ss))

RECURSIVE ISqrtIter(_, _)
ISqrtIter(x, g) ==
    LET h == (g + x \div g) \div 2
    IN  IF h >= g THEN g ELSE ISqrtIter(x, h)

\* torch.sqrt on the fixed-point grid: the largest r with r * r <= x.
ISqrt(x) == IF x = 0 THEN 0 ELSE ISqrtIter(x, x)

SqNorm(head) == SumSeq([i \in 1..Len(head) |-> head[i] * head[i]])

ZeroHead == [i \in 1..Window |-> 0]

EmptyTensor == [shape |-> <<0>>, rows |-> <<>>]

\* ------------------------------------------------------ inputs of the model
\* Images: "black" is all zero, "a" is an ordinary image.
Images == {"black", "a"}

\* The pixel values of an image.
Pixels(img) == IF img = "black" THEN <<0, 0>> ELSE <<0, Scale>>

\* nn.Linear / CosineClassifier start from random weights: one draw.
Inits == {1}

ClassCounts == (1..MaxClasses) \cup {outplanes}

NumClassesArgs ==
    {[none |-> TRUE, val |-> 0]} \cup {[none |-> FALSE, val |-> c] : c \in ClassCounts}

ClassifierArgs == {"None", "linear", "cosine", "svm"}

Checkpoints == {"exact", "missing_keys", "extra_keys"}

LabelChoices(C) == IF C <= MaxClasses THEN 0..(C - 1) ELSE {C - 1}

\* ------------------------------------------------------------ the backbone
\* The weight of conv1 for output channel c: kaiming_normal_ draws weights
\* of either sign.
ConvWeight(c) == IF c % 2 = 1 THEN c + 2 ELSE 0 - (c + 2)

\* self.conv1(x), bias=False: channel c of an image, pixel by pixel.
conv1(img) ==
    [c \in 1..Window |->
        [p \in 1..Len(Pixels(img)) |-> ConvWeight(c) * Pixels(img)[p]]]

\* All N*H*W values of channel c in a batch.
ChannelValues(batch, c) == Concat([j \in 1..Len(batch) |-> conv1(batch[j])[c]])

Mean(vals) == SumSeq(vals) \div Len(vals)

SumSqDev(vals) ==
    LET mu == Mean(vals)
    IN  SumSeq([k \in 1..Len(vals) |-> (vals[k] - mu) * (vals[k] - mu)])

\* Per-channel statistics of a batch over its N*H*W values: the mean, the
\* biased variance BatchNorm normalises with in training mode, and the
\* unbiased variance it feeds to running_var.
batch_mean(batch) == [c \in 1..Window |-> Mean(ChannelValues(batch, c))]

batch_var(batch) ==
    [c \in 1..Window |->
        LET vals == ChannelValues(batch, c) IN SumSqDev(vals) \div Len(vals)]

batch_var_unbiased(batch) ==
    [c \in 1..Window |->
        LET vals == ChannelValues(batch, c) IN SumSqDev(vals) \div (Len(vals) - 1)]

\* nn.BatchNorm2d with weight 1 and bias 0: (x - mean) / sqrt(var + eps).
batch_norm(x, mean, var) == ((x - mean) * Scale) \div ISqrt(var + bn_eps)

relu(x) == Max(x, 0)

\* nn.AdaptiveAvgPool2d(1): the mean over the pixels of one channel.
avgpool(vals) == SumSeq(vals) \div Len(vals)

\* conv1, bn1, relu and avgpool with the given statistics: one row per image.
features(batch, mean, var) ==
    [j \in 1..Len(batch) |->
        LET x == conv1(batch[j])
        IN  [head |-> [c \in 1..Window |->
                         avgpool([p \in 1..Len(x[c]) |->
                                    relu(batch_norm(x[c][p], mean[c], var[c]))])],
             den |-> 1]]

\* BatchNorm with self.training: normalised with the statistics of the
\* batch, so the row of an image depends on the other images of the batch.
bn_train(batch) ==
    LET mean == batch_mean(batch)
        var  == batch_var(batch)
    IN  features(batch, mean, var)

\* The buffers of a BatchNorm layer as nn.BatchNorm2d creates them:
\* running_mean = 0, running_var = 1, num_batches_tracked = 0.
InitRunningMean == ZeroHead

InitRunningVar == [c \in 1..Window |-> Scale * Scale]

\* BatchNorm in eval mode: normalised with running_mean and running_var.
bn_eval(m, batch) == features(batch, m.running_mean, m.running_var)

\* conv1 .. layer4 and avgpool: non-negative rows, one per image.
avgpool_out(m, batch) ==
    [shape |-> <<Len(batch), outplanes, 1, 1>>,
     rows  |-> IF m.training THEN bn_train(batch) ELSE bn_eval(m, batch)]

\* Tensor.squeeze(): every dimension of size 1 is removed.
squeeze(t) == [shape |-> SelectSeq(t.shape, LAMBDA d : d # 1), rows |-> t.rows]

embed(m, batch) == squeeze(avgpool_out(m, batch))

\* The side effect of a pass through the BatchNorm layers.  In training mode
\* every batch, an all-zero one too, moves the buffers:
\*   running_mean <- (1 - momentum) running_mean + momentum mean(batch)
\*   running_var  <- (1 - momentum) running_var  + momentum unbiased var(batch)
\*   num_batches_tracked <- num_batches_tracked + 1
\* In eval mode the buffers are left alone.
bn_update(m, batch) ==
    IF ~m.training THEN m
    ELSE LET mean == batch_mean(batch)
             var  == batch_var_unbiased(batch)
         IN  [m EXCEPT
                !.running_mean =
                    [c \in 1..Window |->
                        ((momentum_inv - 1) * m.running_mean[c] + mean[c]) \div momentum_inv],
                !.running_var =
                    [c \in 1..Window |->
                        ((momentum_inv - 1) * m.running_var[c] + var[c]) \div momentum_inv],
                !.num_batches_tracked = @ + 1]

\* ------------------------------------------------------------ construction
WeightEntry(seed, i, j) == 3 * i - 2 * j + seed

\* A parameter matrix is kept as [shape, win]: win is its leading
\* Window x Window block, every entry outside it is zero.
\* nn.Linear(in_features, out_features).weight: out_features x in_features.
LinearWeight(seed, inF, outF) ==
    [shape |-> <<outF, inF>>,
     win   |-> [k \in 1..Window |-> [j \in 1..Window |->
                  IF k <= outF /\ j <= inF THEN WeightEntry(seed, k, j) ELSE 0]]]

\* CosineClassifier(n_feat, num_classes).weight: one reference vector per
\* class, stored as the columns of an n_feat x num_classes matrix.
CosineWeight(seed, nFeat, nClasses) ==
    [shape |-> <<nFeat, nClasses>>,
     win   |-> [f \in 1..Window |-> [j \in 1..Window |->
                  IF f <= nFeat /\ j <= nClasses THEN WeightEntry(seed, f, j) ELSE 0]]]

NoWeight == [shape |-> <<0, 0>>, win |-> [i \in 1..Window |-> ZeroHead]]

NoModel ==
    [built |-> FALSE, classifier |-> "None", num_classes |-> [none |-> TRUE, val |-> 0],
     attrs |-> {}, cls_kind |-> "none", weight |-> NoWeight,
     training |-> TRUE, running_mean |-> InitRunningMean,
     running_var |-> InitRunningVar, num_batches_tracked |-> 0]

BaseAttrs ==
    {"conv1", "bn1", "relu", "maxpool", "layer1", "layer2", "layer3", "layer4",
     "avgpool", "dropout", "outplanes", "num_classes", "initial_pool", "inplanes"}

\* ResNet.__init__: cls_fn is assigned only under num_classes is not None and
\* a recognised classifier string; otherwise the attribute is never set.
ResNetInit(classifier, num_classes, seed) ==
    LET mk == ~num_classes.none /\ classifier \in {"linear", "cosine"}
    IN  [built |-> TRUE, classifier |-> classifier, num_classes |-> num_classes,
         attrs |-> IF mk THEN BaseAttrs \cup {"cls_fn"} ELSE BaseAttrs,
         cls_kind |-> IF mk THEN classifier ELSE "none",
         weight |-> IF ~mk THEN NoWeight
                    ELSE IF classifier = "linear"
                         THEN LinearWeight(seed, outplanes, num_classes.val)
                         ELSE CosineWeight(seed, outplanes, num_classes.val),
         training |-> TRUE, running_mean |-> InitRunningMean,
         running_var |-> InitRunningVar, num_batches_tracked |-> 0]

\* nn.Module.__getattr__: an attribute that was never assigned raises.
HasAttr(m, name) == name \in m.attrs

\* state_dict(): an ordered mapping keyed by parameter and buffer NAMES.
get_state_dict(m) ==
    {"conv1.weight", "bn1.weight", "bn1.bias", "bn1.running_mean", "bn1.running_var",
     "bn1.num_batches_tracked",
     "layer1.0.conv1.weight", "layer4.1.bn2.bias"}
    \cup (IF m.cls_kind = "linear" THEN {"cls_fn.weight", "cls_fn.bias"} ELSE {})
    \cup (IF m.cls_kind = "cosine" THEN {"cls_fn.weight", "cls_fn.scale"} ELSE {})

\* dict.__getitem__: a key is looked up by equality; an int is never a name.
HasKey(sd, key) == key.t = "str" /\ key.v \in sd

\* ------------------------------------------------------------ tensor algebra
\* Parameter.T of a 2-D parameter, as a tensor of rows.
transpose(w) ==
    [shape |-> <<w.shape[2], w.shape[1]>>,
     rows  |-> [j \in 1..w.shape[2] |->
                 [head |-> [i \in 1..Window |-> IF j <= Window THEN w.win[i][j] ELSE 0],
                  den |-> 1]]]

\* torch.atleast_2d, applied by vstack to each input.
atleast_2d(t) ==
    IF Len(t.shape) = 1 THEN [shape |-> <<1, t.shape[1]>>, rows |-> t.rows] ELSE t

\* torch.vstack: concatenation along dim 0; the other dimension must agree.
vstack(ts) ==
    LET t2 == [i \in 1..Len(ts) |-> atleast_2d(ts[i])]
        w  == t2[1].shape[2]
    IN  IF \A i \in 1..Len(t2) : t2[i].shape[2] = w
        THEN [ok |-> TRUE,
              t  |-> [shape |-> <<SumSeq([i \in 1..Len(t2) |-> t2[i].shape[1]]), w>>,
                      rows  |-> Concat([i \in 1..Len(t2) |-> t2[i].rows])]]
        ELSE [ok |-> FALSE, t |-> EmptyTensor]

\* Exact products beyond the range of the model's integers: a natural
\* number as its digits in base Limb, lowest first, without leading zeros.
Limb == 10000

Abs(x) == IF x >= 0 THEN x ELSE 0 - x

RECURSIVE ToBig(_)
ToBig(n) == IF n < Limb THEN <<n>> ELSE <<n % Limb>> \o ToBig(n \div Limb)

RECURSIVE Carry(_, _)
Carry(s, c) ==
    IF s = <<>>
    THEN IF c = 0 THEN <<>> ELSE ToBig(c)
    ELSE <<(Head(s) + c) % Limb>> \o Carry(Tail(s), (Head(s) + c) \div Limb)

RECURSIVE Strip(_)
Strip(a) ==
    IF Len(a) > 1 /\ a[Len(a)] = 0 THEN Strip(SubSeq(a, 1, Len(a) - 1)) ELSE a

BigAdd(a, b) ==
    Strip(Carry([k \in 1..Max(Len(a), Len(b)) |->
                    (IF k <= Len(a) THEN a[k] ELSE 0) + (IF k <= Len(b) THEN b[k] ELSE 0)],
                0))

BigMul(a, b) ==
    Strip(Carry([k \in 1..(Len(a) + Len(b) - 1) |->
                    SumSeq([i \in 1..Len(a) |->
                              IF k + 1 - i >= 1 /\ k + 1 - i <= Len(b)
                              THEN a[i] * b[k + 1 - i] ELSE 0])],
                0))

RECURSIVE BigLess(_, _)
BigLess(a, b) ==
    IF Len(a) # Len(b) THEN Len(a) < Len(b)
    ELSE IF a = <<>> THEN FALSE
    ELSE IF a[Len(a)] # b[Len(b)] THEN a[Len(a)] < b[Len(b)]
    ELSE BigLess(SubSeq(a, 1, Len(a) - 1), SubSeq(b, 1, Len(b) - 1))

RECURSIVE BigSqNorm(_)
BigSqNorm(head) ==
    IF head = <<>> THEN <<0>>
    ELSE BigAdd(BigMul(ToBig(Abs(Head(head))), ToBig(Abs(Head(head)))),
                BigSqNorm(Tail(head)))

\* ||head / den|| < eps, that is |head|^2 * eps_inv^2 < den^2, computed
\* exactly.  The norm of a NaN row is NaN, which is below nothing; a zero
\* row is below eps; a non-zero head has |head|^2 >= 1, so the row is not
\* below eps unless den >= eps_inv.
BelowEps(r) ==
    /\ r.den > 0
    /\ \/ \A c \in 1..Len(r.head) : r.head[c] = 0
       \/ /\ r.den >= eps_inv
          /\ BigLess(BigMul(BigSqNorm(r.head), BigMul(ToBig(eps_inv), ToBig(eps_inv))),
                     BigMul(ToBig(r.den), ToBig(r.den)))

normalize_row_noclamp(r) ==
    [head |-> r.head, den |-> r.den,
     n2 |-> IF r.den = 0 THEN 0 ELSE SqNorm(r.head), clamped |-> FALSE]

\* One row of F.normalize(p=2, eps): v / max(||v||, eps).  With v = head/den
\* the divisor is ||head|| / den, or eps for a vector shorter than eps;
\* NaN stays NaN.
normalize_row(r) ==
    LET below == BelowEps(r)
    IN  [head |-> r.head, den |-> r.den,
         n2 |-> IF r.den = 0 \/ below THEN 0 ELSE SqNorm(r.head),
         clamped |-> below]

normalize(t) ==
    [shape |-> t.shape, rows |-> [i \in 1..Len(t.rows) |-> normalize_row(t.rows[i])]]

\* ------------------------------------------------------------ prototypes
ClassCount(labels, c) == SumSeq([i \in 1..Len(labels) |-> IF labels[i] = c THEN 1 ELSE 0])

ClassSum(rows, labels, c) ==
    [j \in 1..Window |->
        SumSeq([i \in 1..Len(rows) |-> IF labels[i] = c THEN rows[i].head[j] ELSE 0])]

compute_prototypes_sum(embeddings, labels, n_way, onEmpty) ==
    LET e == atleast_2d(embeddings)
    IN  IF onEmpty = "raise" /\ \E c \in 0..(n_way - 1) : ClassCount(labels, c) = 0
        THEN [ok |-> FALSE, t |-> EmptyTensor]
        ELSE [ok |-> TRUE,
              t  |-> [shape |-> <<n_way, e.shape[2]>>,
                      rows  |-> [k \in 1..n_way |->
                                   [head |-> ClassSum(e.rows, labels, k - 1),
                                    den  |-> IF ClassCount(labels, k - 1) = 0
                                             THEN 0 ELSE 1]]]]

\* compute_prototypes (models/losses.py): per-class mean of the embeddings.
\* A class without a sample has an undefined mean: onEmpty chooses between
\* the two outcomes, an error or a NaN row.
compute_prototypes(embeddings, labels, n_way, onEmpty) ==
    LET e == atleast_2d(embeddings)
    IN  IF onEmpty = "raise" /\ \E c \in 0..(n_way - 1) : ClassCount(labels, c) = 0
        THEN [ok |-> FALSE, t |-> EmptyTensor]
        ELSE [ok |-> TRUE,
              t  |-> [shape |-> <<n_way, e.shape[2]>>,
                      rows  |-> [k \in 1..n_way |->
                                   [head |-> ClassSum(e.rows, labels, k - 1),
                                    den  |-> ClassCount(labels, k - 1)]]]]

\* ------------------------------------------------------------ results
Raised(exc) == [status |-> "raised", exc |-> exc, out |-> EmptyTensor, labels |-> <<>>]

Returned(out, labels) == [status |-> "ok", exc |-> "", out |-> out, labels |-> labels]

\* ------------------------------------------------------ get_final_features
\* np.zeros_like(support_labels) + support_labels
support_band_labels(sl) == [i \in 1..Len(sl) |-> 0 + sl[i]]

query_band_labels_mut(ql, C) == [i \in 1..Len(ql) |-> 1 * C + ql[i]]

\* np.ones_like(query_labels) * 2 * num_classes + query_labels
query_band_labels(ql, C) == [i \in 1..Len(ql) |-> 1 * 2 * C + ql[i]]

cls_band_labels_mut(C) == [k \in 1..C |-> 3 * C + k]

\* 3 * num_classes + np.arange(num_classes)
cls_band_labels(C) == [k \in 1..C |-> 3 * C + (k - 1)]

\* 4 * num_classes + np.arange(num_classes)
proto_band_labels(C) == [k \in 1..C |-> 4 * C + (k - 1)]

\* protos = compute_prototypes(support_features, support_labels, num_classes)
gff_protos(sf, sl, qf, ql, C, onEmpty) == compute_prototypes(sf, sl, C, onEmpty)

get_final_features(m, episode, onEmpty) ==
    LET sl == episode.support_labels
        ql == episode.query_labels
        sf == embed(m, episode.support_images)
        qf == embed(bn_update(m, episode.support_images), episode.query_images)
    IN  IF m.num_classes.none
        THEN Raised("TypeError")              \* ... * 2 * None
        ELSE IF ~HasAttr(m, "cls_fn")
        THEN Raised("AttributeError")         \* self.cls_fn != None
        ELSE
          LET C      == m.num_classes.val
              hasCls == m.cls_kind # "none"
              labels == <<support_band_labels(sl), query_band_labels(ql, C)>>
                        \o (IF hasCls THEN <<cls_band_labels(C)>> ELSE <<>>)
                        \o <<proto_band_labels(C)>>
              protos == gff_protos(sf, sl, qf, ql, C, onEmpty)
              feats  == <<sf, qf>>
                        \o (IF hasCls THEN <<transpose(m.weight)>> ELSE <<>>)
                        \o <<protos.t>>
          IN  IF ~protos.ok
              THEN Raised("ValueError")
              ELSE LET vs == vstack(feats)
                   IN  IF ~vs.ok
                       THEN Raised("RuntimeError")
                       ELSE Returned(normalize(vs.t), Concat(labels))

\* ------------------------------------------------------------------ forward
\* dropout has p = 0.0; cls_fn maps the last dimension to num_classes scores.
forward(m, batch) ==
    LET x == embed(m, batch)
    IN  IF ~HasAttr(m, "cls_fn")
        THEN Raised("AttributeError")
        ELSE Returned([shape |-> SubSeq(x.shape, 1, Len(x.shape) - 1) \o <<m.num_classes.val>>,
                       rows  |-> <<>>], <<>>)

\* ----------------------------------------------------------------- resnet18
\* Paths: no path, a path that cannot be read, or a readable checkpoint whose
\* parameter names match the model, miss some, or have extra ones.
Paths == {"None", "unreadable"} \cup Checkpoints

resnet18(pretrained, path, classifier, num_classes, seed) ==
    LET m == ResNetInit(classifier, num_classes, seed)
    IN  IF ~pretrained
        THEN [status |-> "ok", exc |-> "", model |-> m, log |-> <<>>]
        ELSE IF ~HasKey(get_state_dict(m), [t |-> "int", v |-> 0])
        THEN [status |-> "raised", exc |-> "KeyError", model |-> NoModel, log |-> <<>>]
        ELSE IF path \notin Checkpoints
        THEN [status |-> "raised", exc |-> "FileNotFoundError", model |-> NoModel, log |-> <<>>]
        ELSE IF ~HasAttr(m, "load_parameters")
        THEN [status |-> "raised", exc |-> "AttributeError", model |-> NoModel, log |-> <<>>]
        ELSE [status |-> "ok", exc |-> "", model |-> m, log |-> <<"Loaded shared weights">>]

\* ------------------------------------------------------------ state machine
NoCall == [op |-> "none"]

Init == model = NoModel /\ last = NoCall

Resnet18 ==
    /\ last.op = "none"
    /\ \E pretrained \in BOOLEAN, path \in Paths, classifier \in ClassifierArgs,
          num_classes \in NumClassesArgs, seed \in Inits :
         /\ pretrained \/ path = "None"
         /\ LET r == resnet18(pretrained, path, classifier, num_classes, seed)
            IN  /\ model' = r.model
                /\ last' = [op |-> "resnet18", pretrained |-> pretrained, path |-> path,
                            classifier |-> classifier, num_classes |-> num_classes,
                            res |-> [status |-> r.status, exc |-> r.exc, log |-> r.log]]

Batches(n) == UNION {[1..k -> Images] : k \in 1..n}

NumClassesOf(m) == IF m.num_classes.none THEN 1 ELSE m.num_classes.val

\* An episode: one label per support image and one per query image.
Episodes(m) ==
    UNION {
        {[support_images |-> si, support_labels |-> sl,
          query_images |-> qi, query_labels |-> ql] :
            si \in [1..ns -> Images], sl \in [1..ns -> LabelChoices(NumClassesOf(m))],
            qi \in [1..nq -> Images], ql \in [1..nq -> LabelChoices(NumClassesOf(m))]} :
        ns \in 1..MaxSupport, nq \in 1..MaxQuery}

\* compute_prototypes meets an empty class only if the episode leaves one.
OnEmptyChoices(m, episode) ==
    IF \A c \in 0..(NumClassesOf(m) - 1) :
          \E i \in 1..Len(episode.support_labels) : episode.support_labels[i] = c
    THEN {"raise"}
    ELSE {"raise", "nan"}

\* Any number of calls is made on one model object, in any order and in
\* either mode.  train() and eval() stand between two calls: train() on a
\* model in training mode changes nothing, so no sequence of calls is lost.
Callable == model.built /\ last.op \in {"resnet18", "train", "eval"}

\* A training-mode call is made while it keeps num_batches_tracked within
\* MaxTracked; a call in eval mode tracks nothing.
Trackable(n) == ~model.training \/ model.num_batches_tracked + n <= MaxTracked

\* nn.Module.train(): self.training = True.
Train ==
    /\ model.built
    /\ model' = [model EXCEPT !.training = TRUE]
    /\ last' = [op |-> "train"]

\* nn.Module.eval(): self.training = False.
Eval ==
    /\ model.built
    /\ model' = [model EXCEPT !.training = FALSE]
    /\ last' = [op |-> "eval"]

Embed ==
    /\ Callable
    /\ Trackable(1)
    /\ \E batch \in Batches(MaxSupport) :
         /\ last' = [op |-> "embed", batch |-> batch,
                     res |-> Returned(embed(model, batch), <<>>)]
         /\ model' = bn_update(model, batch)

Forward ==
    /\ Callable
    /\ Trackable(1)
    /\ \E batch \in Batches(MaxSupport) :
         /\ last' = [op |-> "forward", batch |-> batch, res |-> forward(model, batch)]
         /\ model' = bn_update(model, batch)

GetFinalFeatures ==
    /\ Callable
    /\ Trackable(2)
    /\ \E episode \in Episodes(model) :
         \E onEmpty \in OnEmptyChoices(model, episode) :
            /\ last' = [op |-> "get_final_features", episode |-> episode,
                        res |-> get_final_features(model, episode, onEmpty)]
            /\ model' = bn_update(bn_update(model, episode.support_images),
                                  episode.query_images)

Next == Resnet18 \/ Train \/ Eval \/ Embed \/ Forward \/ GetFinalFeatures

Spec == Init /\ [][Next]_vars

\* ============================================================== properties
GffDone == last.op = "get_final_features"

GffOk == GffDone /\ last.res.status = "ok"

NC == model.num_classes.val

SupLabels == last.episode.support_labels

QryLabels == last.episode.query_labels

NS == Len(SupLabels)

NQ == Len(QryLabels)

HeadAttached == model.cls_kind # "none"

\* Rows of the classifier group in a returned feature bank.
NW == IF HeadAttached THEN NC ELSE 0

OutRows == last.res.out.rows

OutLabels == last.res.labels

\* The call was made in eval mode on a model that training-mode batches
\* had gone through before.
LaterCall == ~model.training /\ model.num_batches_tracked > 0

\* The caller contract of the prototype computation: every class has a sample.
Covered == \A c \in 0..(NC - 1) : \E i \in 1..NS : SupLabels[i] = c

LabelsInRange ==
    /\ \A i \in 1..NS : SupLabels[i] \in 0..(NC - 1)
    /\ \A j \in 1..NQ : QryLabels[j] \in 0..(NC - 1)

\* C1 (as claimed): for a model with num_classes = C and an episode covering
\* every class, get_final_features returns S + Q + C + C feature rows when a
\* classifier kind (linear or cosine) was chosen and S + Q + C rows otherwise,
\* with a label vector of the same length.
C1_RowCount ==
    (GffDone /\ ~model.num_classes.none /\ Covered) =>
        LET n == NS + NQ + NC
                 + (IF model.classifier \in {"linear", "cosine"} THEN NC ELSE 0)
        IN  /\ last.res.status = "ok"
            /\ last.res.out.shape = <<n, outplanes>>
            /\ Len(OutRows) = n
            /\ Len(OutLabels) = n

\* C2: in a returned label vector, for in-range episode labels, support
\* labels are below C, query labels lie in [2C, 3C), classifier-weight labels
\* in [3C, 4C) and prototype labels in [4C, 5C): the bands are disjoint.
C2_BandsDisjoint ==
    (GffOk /\ LabelsInRange) =>
        /\ Len(OutLabels) = NS + NQ + NW + NC
        /\ \A i \in 1..NS : OutLabels[i] \in 0..(NC - 1)
        /\ \A j \in 1..NQ : OutLabels[NS + j] \in (2 * NC)..(3 * NC - 1)
        /\ \A k \in 1..NW : OutLabels[NS + NQ + k] \in (3 * NC)..(4 * NC - 1)
        /\ \A k \in 1..NC : OutLabels[NS + NQ + NW + k] \in (4 * NC)..(5 * NC - 1)

C2_Witness ==
    /\ GffOk /\ HeadAttached /\ NC >= 2 /\ LaterCall
    /\ \E j \in 1..NQ : QryLabels[j] = NC - 1
    /\ \E i \in 1..NS : SupLabels[i] = NC - 1

\* C3 (as claimed): a model built without a recognised classifier kind runs
\* get_final_features in embedding-only mode: the call returns the support,
\* query and prototype groups and no band-3 row.
C3_EmbeddingOnly ==
    (GffDone /\ ~model.num_classes.none /\ Covered
        /\ model.classifier \notin {"linear", "cosine"}) =>
        /\ last.res.status = "ok"
        /\ Len(OutRows) = NS + NQ + NC
        /\ \A i \in 1..Len(OutLabels) : OutLabels[i] \notin (3 * NC)..(4 * NC - 1)

\* C4 (as claimed): resnet18(pretrained=True, path) with a readable checkpoint
\* returns the model whether or not the checkpoint's names match, and logs it.
C4_NonStrictLoad ==
    (last.op = "resnet18" /\ last.pretrained /\ last.path \in Checkpoints) =>
        /\ last.res.status = "ok"
        /\ model.built
        /\ last.res.log # <<>>

\* C5 (as claimed): embed of a batch of N >= 1 images has shape (N, 512).
C5_EmbedShape ==
    (last.op = "embed") =>
        /\ last.res.out.shape = <<Len(last.batch), outplanes>>
        /\ Len(last.res.out.rows) = Len(last.batch)

\* The weight vector of class k (1-based) of the attached head: row k of a
\* linear head's weight, column k of a cosine head's weight.
ClassWeightVector(m, k) ==
    [head |-> [i \in 1..Window |->
                 IF k > Window THEN 0
                 ELSE IF m.cls_kind = "linear" THEN m.weight.win[k][i]
                 ELSE m.weight.win[i][k]],
     den |-> 1]

SameVector(r, v) == r.head = v.head /\ r.den = v.den

\* The embeddings of the episode's two batches.  A call leaves the mode
\* alone, and only eval mode reads the running statistics, which a call in
\* eval mode leaves alone.
SupEmbeds == avgpool_out(model, last.episode.support_images).rows

QryEmbeds == avgpool_out(model, last.episode.query_images).rows

ClassMean(c) ==
    [head |-> ClassSum(SupEmbeds, SupLabels, c),
     den  |-> ClassCount(SupLabels, c)]

\* C6 (as claimed): the returned rows are the support embeddings in episode
\* order, then the query embeddings in episode order, then the weight vectors
\* of classes 0..C-1 (if a head is attached), then the prototypes of classes
\* 0..C-1, and the labels run in the same order.
C6_RowOrder ==
    GffOk =>
        /\ Len(OutRows) = NS + NQ + NW + NC
        /\ Len(OutLabels) = Len(OutRows)
        /\ \A i \in 1..NS :
             /\ SameVector(OutRows[i], SupEmbeds[i])
             /\ OutLabels[i] = SupLabels[i]
        /\ \A j \in 1..NQ :
             /\ SameVector(OutRows[NS + j], QryEmbeds[j])
             /\ OutLabels[NS + j] = 2 * NC + QryLabels[j]
        /\ \A k \in 1..NW :
             /\ SameVector(OutRows[NS + NQ + k], ClassWeightVector(model, k))
             /\ OutLabels[NS + NQ + k] = 3 * NC + (k - 1)
        /\ \A k \in 1..NC :
             /\ SameVector(OutRows[NS + NQ + NW + k], ClassMean(k - 1))
             /\ OutLabels[NS + NQ + NW + k] = 4 * NC + (k - 1)

\* C7: the label of the i-th support row is the i-th support label, of the
\* j-th query row the j-th query label plus 2C, of the k-th classifier row
\* 3C + k, of the k-th prototype row 4C + k (k from 0); subtracting the band
\* offset gives back the class index.
C7_LabelEncoding ==
    GffOk =>
        /\ \A i \in 1..NS : OutLabels[i] = SupLabels[i]
        /\ \A j \in 1..NQ : OutLabels[NS + j] - 2 * NC = QryLabels[j]
        /\ \A k \in 1..NW : OutLabels[NS + NQ + k] - 3 * NC = k - 1
        /\ \A k \in 1..NC : OutLabels[NS + NQ + NW + k] - 4 * NC = k - 1

C7_Witness ==
    /\ GffOk /\ HeadAttached /\ NC >= 2 /\ NS >= 2 /\ NQ >= 2 /\ LaterCall
    /\ SupLabels[1] # SupLabels[2]
    /\ QryLabels[1] > QryLabels[2]
    /\ OutLabels[NS + 1] = 2 * NC + QryLabels[1]
    /\ OutLabels[NS + NQ + 2] = 3 * NC + 1

\* C8: for every class c with a support sample, the prototype row of c
\* (before normalisation) is the mean of the support rows of the same output
\* whose label is c: count times the prototype is their sum.
C8_PrototypeMean ==
    GffOk =>
        \A c \in 0..(NC - 1) :
            LET members == {i \in 1..NS : OutLabels[i] = c}
                p       == OutRows[NS + NQ + NW + c + 1]
            IN  members # {} =>
                  /\ p.den = Cardinality(members)
                  /\ \A j \in 1..Window :
                       p.head[j] =
                         SumSeq([i \in 1..NS |->
                                   IF i \in members THEN OutRows[i].head[j] ELSE 0])
                  /\ \A i \in members : OutRows[i].den = 1

C8_Witness ==
    /\ GffOk /\ NS >= 2 /\ LaterCall
    /\ OutRows[1].head # OutRows[2].head
    /\ SupLabels[1] = SupLabels[2]
    /\ last.episode.support_images[1] # last.episode.support_images[2]
    /\ OutRows[NS + NQ + NW + SupLabels[1] + 1].den = 2

RowIsNaN(r) == r.den = 0

\* The row was divided by its own non-zero norm.
HasUnitNorm(r) == ~RowIsNaN(r) /\ ~r.clamped /\ r.n2 > 0 /\ SqNorm(r.head) = r.n2

C10_HeadSelection ==
    model.built =>
        /\ (~model.num_classes.none /\ model.classifier \in {"linear", "cosine"}) =>
              /\ model.cls_kind = model.classifier
              /\ model.weight.shape \in {<<NC, outplanes>>, <<outplanes, NC>>}
        /\ (model.num_classes.none \/ model.classifier \notin {"linear", "cosine"}) =>
              /\ model.cls_kind = "none"
              /\ last.op \in {"forward", "get_final_features"} =>
                    ~(last.res.status = "raised" /\ last.res.exc = "AttributeError")

====
